---------------------------- MODULE Spec2Model ----------------------------
(***************************************************************************)
(* Model of src/server.py: a Flask resource server for advertisements,     *)
(* backed by one relational table reached through SQLAlchemy sessions.     *)
(*                                                                         *)
(* The state is the table `advertisements`, its id sequence, the requests  *)
(* the workers serve, and the request answered by the latest step.  A      *)
(* handler is cut into steps only where it talks to the database, so that  *)
(* requests served by different workers interleave exactly at the          *)
(* statements the database serialises:                                     *)
(*   GET     load                                                          *)
(*   POST    validate + INSERT/commit  |  reload of the expired object     *)
(*   PATCH   validate + load           |  UPDATE/commit                    *)
(*   DELETE  load                      |  DELETE/commit                    *)
(*                                                                         *)
(* Library behaviour the handlers rely on:                                 *)
(*  - pydantic (v1, the version in which Optional fields without default   *)
(*    are optional and models have .dict()): a str field accepts a JSON    *)
(*    string, coerces a JSON number with str(), and rejects null, lists    *)
(*    and objects; a missing required field is an error;                   *)
(*  - SQLAlchemy: commit() flushes, an UPDATE names only the columns whose *)
(*    value differs from the loaded one, an UPDATE that matches no row     *)
(*    raises StaleDataError, a DELETE that matches no row only warns, and  *)
(*    commit() expires the object so that reading ad.id afterwards reloads *)
(*    the row (ObjectDeletedError when it is gone);                        *)
(*  - PostgreSQL: ids come from a sequence that never hands a value out    *)
(*    twice (a failed INSERT consumes its value too), the unique index on  *)
(*    ad_name rejects a duplicate at the statement, and a failed statement *)
(*    rolls the transaction back.  Every transaction here holds one        *)
(*    writing statement followed by its commit, so statement and commit    *)
(*    are one step.                                                        *)
(* Request bodies are JSON objects; unknown keys are dropped by pydantic   *)
(* and are not modelled.                                                   *)
(*                                                                         *)
(* Spec lets requests overlap; SpecSerial serves one request at a time and *)
(* draws its bodies from every combination of JSON value kinds.            *)
(***************************************************************************)
EXTENDS Integers, Sequences, FiniteSets, TLC

(* ------------------------------ bounds -------------------------------- *)

\* Requests the clients send in one behaviour of Spec (requests overlap).
MaxRequests == 3

\* Requests that can be in flight at the same time in Spec.
MaxInFlight == 2

\* Requests the client sends in one behaviour of SpecSerial (one at a time,
\* bodies drawn from the wide set Payloads).
MaxSerial == 2

Slots == 1..MaxInFlight

\* Ids a client puts in the path /ads/<int:ad_id>: with `limit` requests at
\* most limit - 1 records exist when a request with a path id arrives.
PathIds(limit) == 1..(limit - 1)

(* ---------------------------- JSON values ----------------------------- *)

\* A JSON value of a body field: its type and, for a string or a number,
\* its text (for a number the text str() gives it).
Absent == [t |-> "absent", s |-> ""]
Null == [t |-> "null", s |-> ""]
Obj == [t |-> "obj", s |-> ""]
Num(lit) == [t |-> "num", s |-> lit]
Str(txt) == [t |-> "str", s |-> txt]

\* Python None in a validated dict.
None == [t |-> "none", s |-> ""]

Fields == <<"ad_name", "ad_body", "ad_owner">>

\* Values a body gives one field in SpecSerial.
JsonVals == {Absent, Null, Obj, Num("5"), Str(""), Str("a")}

Payloads == [ad_name : JsonVals, ad_body : JsonVals, ad_owner : {Absent, Obj, Str("o")}]

\* Bodies of the overlapping requests of Spec: all of them pass validation.
PostBodies == [ad_name : {Str("a"), Str("b")}, ad_body : {Str("x")}, ad_owner : {Str("o")}]

PatchBodies ==
    [ad_name : {Absent, Str("b")}, ad_body : {Absent, Str("y")}, ad_owner : {Absent, Str("p")}]

NoBody == [ad_name |-> Absent, ad_body |-> Absent, ad_owner |-> Absent]

(* ----------------------------- validation ----------------------------- *)

CreateAd == [name |-> "CreateAd", required |-> TRUE]

PatchAd == [name |-> "PatchAd", required |-> FALSE]

\* pydantic's verdict on one field: "" when the value is accepted.
field_error(model, v) ==
    CASE v.t = "absent" -> IF model.required THEN "value_error.missing" ELSE ""
      [] v.t = "null" -> IF model.required THEN "type_error.none.not_allowed" ELSE ""
      [] v.t = "obj" -> "type_error.str"
      [] OTHER -> ""

\* The value .dict() holds for an accepted field.
field_value(v) ==
    IF v.t \in {"str", "num"} THEN Str(v.s) ELSE None

\* error.errors(): one entry per rejected field, in declaration order.
errors(model, raw_data) ==
    LET all == [i \in 1..Len(Fields) |->
                   [loc |-> Fields[i], type |-> field_error(model, raw_data[Fields[i]])]]
        Bad(e) == e.type # ""
    IN SelectSeq(all, Bad)

HttpError(status_code, message) == [status_code |-> status_code, message |-> message]

\* validate(model, raw_data): the dict of the model, or HttpError(400, errors).
validate(model, raw_data) ==
    LET errs == errors(model, raw_data)
    IN IF Len(errs) = 0
       THEN [raised |-> FALSE,
             value |-> [f \in DOMAIN raw_data |-> field_value(raw_data[f])]]
       ELSE [raised |-> TRUE, error |-> HttpError(400, errs)]

\* Python truthiness of a validated value: None and '' are falsy.
Truthy(v) == v.t = "str" /\ v.s # ""

(* ----------------------------- responses ------------------------------ *)

Response(status, body) == [status |-> status, body |-> body]

NoResp == Response(0, [none |-> TRUE])

\* The errorhandler registered for HttpError.
http_error_handler(error) ==
    Response(error.status_code, [status |-> "error", reason |-> error.message])

\* Any other exception leaves the view: Flask answers 500 with its own page.
InternalServerError == Response(500, [html |-> "Internal Server Error"])

Success == Response(200, [status |-> "success"])

(* ------------------------------ the store ----------------------------- *)

Columns == {"ad_name", "ad_body", "ad_owner", "created_at"}

NoAd == [ad_name |-> "", ad_body |-> "", ad_owner |-> "", created_at |-> 0]

\* Mutant of Advertisement: ad_owner is filled from the body text.
Advertisement_owner_from_body(validated, now) ==
    [ad_name |-> validated.ad_name.s, ad_body |-> validated.ad_body.s,
     ad_owner |-> validated.ad_body.s, created_at |-> now]

\* Advertisement(ad_name=..., ad_body=..., ad_owner=...) as the INSERT stores
\* it: created_at is the server default now(), the time `now` of the INSERT.
Advertisement(validated, now) ==
    [ad_name |-> validated.ad_name.s, ad_body |-> validated.ad_body.s,
     ad_owner |-> validated.ad_owner.s, created_at |-> now]

\* Mutant of unique_violation: the column is declared without unique=True.
unique_violation_no_index(tbl, ad_id, ad_name) == FALSE

\* The unique index on ad_name: a row other than ad_id holds the name.
unique_violation(tbl, ad_id, ad_name) ==
    \E j \in DOMAIN tbl : j # ad_id /\ tbl[j].ad_name = ad_name

\* Mutant of next_id: the id is one more than the largest id in the table.
next_id_max_plus_one(tbl, last) ==
    IF DOMAIN tbl = {} THEN 1
    ELSE (CHOOSE m \in DOMAIN tbl : \A j \in DOMAIN tbl : j <= m) + 1

\* The id the INSERT takes from the sequence of the primary key.
next_id(tbl, last) == last + 1

\* Mutant of get_ad: the missing row is reported with status 400.
get_ad_status_400(tbl, ad_id) ==
    IF ad_id \in DOMAIN tbl
    THEN [raised |-> FALSE, value |-> tbl[ad_id]]
    ELSE [raised |-> TRUE, error |-> HttpError(400, "advertisement not found")]

\* get_ad(session, ad_id): the row, or HttpError(404, ...).
get_ad(tbl, ad_id) ==
    IF ad_id \in DOMAIN tbl
    THEN [raised |-> FALSE, value |-> tbl[ad_id]]
    ELSE [raised |-> TRUE, error |-> HttpError(404, "advertisement not found")]

\* Mutant of patch_assign: ad_owner is assigned like the other two fields.
patch_assign_owner_too(ad, validated) ==
    [ad EXCEPT !.ad_name = IF Truthy(validated.ad_name) THEN validated.ad_name.s ELSE @,
               !.ad_body = IF Truthy(validated.ad_body) THEN validated.ad_body.s ELSE @,
               !.ad_owner = IF Truthy(validated.ad_owner) THEN validated.ad_owner.s ELSE @]

\* The in-memory object after patch's assignments.
patch_assign(ad, validated) ==
    [ad EXCEPT !.ad_name = IF Truthy(validated.ad_name) THEN validated.ad_name.s ELSE @,
               !.ad_body = IF Truthy(validated.ad_body) THEN validated.ad_body.s ELSE @]

\* The columns the unit of work finds modified: those whose value differs
\* from the loaded one.
dirty_columns(loaded, ad) == {c \in Columns : ad[c] # loaded[c]}

\* The SET clause of the UPDATE the flush will emit: modified column -> value.
pending_update(loaded, ad) == [c \in dirty_columns(loaded, ad) |-> ad[c]]

\* The row after UPDATE advertisements SET <set> WHERE id = ad_id.
updated_row(row, set) == [c \in Columns |-> IF c \in DOMAIN set THEN set[c] ELSE row[c]]

\* session.commit() of patch: "ok", or the exception the flush raises.
update_outcome(tbl, ad_id, set) ==
    IF DOMAIN set = {} THEN "ok"
    ELSE IF ad_id \notin DOMAIN tbl THEN "StaleDataError"
    ELSE IF "ad_name" \in DOMAIN set /\ unique_violation(tbl, ad_id, set["ad_name"])
         THEN "IntegrityError"
    ELSE "ok"

\* The table after patch's flush.
update_table(tbl, ad_id, set) ==
    IF update_outcome(tbl, ad_id, set) = "ok" /\ DOMAIN set # {}
    THEN [tbl EXCEPT ![ad_id] = updated_row(@, set)]
    ELSE tbl

\* The table after DELETE FROM advertisements WHERE id = ad_id.
delete_row(tbl, ad_id) == [j \in DOMAIN tbl \ {ad_id} |-> tbl[j]]

\* The table after post's INSERT of `row` under `id`.
insert_row(tbl, id, row) ==
    IF unique_violation(tbl, id, row.ad_name)
    THEN tbl
    ELSE [j \in DOMAIN tbl \cup {id} |-> IF j = id THEN row ELSE tbl[j]]

(* ------------------------------- state -------------------------------- *)

VARIABLES
    table,      \* advertisements: id -> row
    last_id,    \* last value handed out by the id sequence
    clock,      \* the number of requests received so far
    req,        \* per worker: the request it serves and where its handler is
    last,       \* the request the latest step answered (Idle: it answered none)
    deleted,    \* history: ids whose DELETE has answered success
    touched,    \* history: ids a PATCH or DELETE has committed on
    submitted   \* history: id -> the body of the POST that created it

vars == <<table, last_id, clock, req, last, deleted, touched, submitted>>

\* A worker without a request.  Of a request: kind, ad_id and json are what
\* the client sent, pc is the handler's position, set the UPDATE its session
\* holds, resp the response; found (what its load saw), wrote (its commit
\* changed the table), conflict (its INSERT hit the unique index) and late
\* (a GET that arrived after a DELETE of its id answered success) are
\* history.
Idle ==
    [kind |-> "NONE", ad_id |-> 0, json |-> NoBody, pc |-> "idle",
     set |-> <<>>, resp |-> NoResp,
     found |-> "na", wrote |-> FALSE, conflict |-> FALSE, late |-> FALSE]

Init ==
    /\ table = <<>>
    /\ last_id = 0
    /\ clock = 0
    /\ req = [r \in Slots |-> Idle]
    /\ last = Idle
    /\ deleted = {}
    /\ touched = {}
    /\ submitted = <<>>

\* The handler ends with response `resp`; the session is closed.
Finish(q, resp) == [q EXCEPT !.pc = "done", !.resp = resp, !.set = <<>>]

\* Worker r moves to q; when q is finished the response is sent and the
\* worker is free again.
Step(r, q) ==
    /\ req' = [req EXCEPT ![r] = IF q.pc = "done" THEN Idle ELSE q]
    /\ last' = IF q.pc = "done" THEN q ELSE Idle

(* ------------------------------ routing ------------------------------- *)

\* app.add_url_rule: a request arrives and is dispatched to the view method
\* on the first free worker.
Receive(r, kind, ad_id, json, limit) ==
    /\ req[r].pc = "idle"
    /\ \A w \in Slots : w < r => req[w].pc # "idle"
    /\ clock < limit
    /\ clock' = clock + 1
    /\ req' = [req EXCEPT ![r] = [Idle EXCEPT !.kind = kind, !.ad_id = ad_id,
                                             !.json = json, !.pc = "start",
                                             !.late = kind = "GET" /\ ad_id \in deleted]]
    /\ last' = Idle
    /\ UNCHANGED <<table, last_id, deleted, touched, submitted>>

ReceiveGet(r, limit) == \E i \in PathIds(limit) : Receive(r, "GET", i, NoBody, limit)

ReceiveDelete(r, limit) == \E i \in PathIds(limit) : Receive(r, "DELETE", i, NoBody, limit)

ReceivePost(r, bodies, limit) == \E j \in bodies : Receive(r, "POST", 0, j, limit)

ReceivePatch(r, bodies, limit) ==
    \E i \in PathIds(limit), j \in bodies : Receive(r, "PATCH", i, j, limit)

\* What a load of ad_id sees in the table.
Seen(ad_id) == IF ad_id \in DOMAIN table THEN "yes" ELSE "no"

(* -------------------------------- GET --------------------------------- *)

\* datetime.isoformat(): the timestamp as an ISO-8601 string.
isoformat(t) == <<"iso-8601", t>>

\* AdView.get: the response for the table as the SELECT sees it.
get(tbl, ad_id) ==
    LET ad == get_ad(tbl, ad_id)
    IN IF ad.raised THEN http_error_handler(ad.error)
       ELSE Response(200, [ad_name |-> ad.value.ad_name, ad_body |-> ad.value.ad_body,
                           ad_owner |-> ad.value.ad_owner,
                           created_at |-> isoformat(ad.value.created_at)])

Get(r) ==
    /\ req[r].kind = "GET" /\ req[r].pc = "start"
    /\ Step(r, Finish([req[r] EXCEPT !.found = Seen(req[r].ad_id)],
                      get(table, req[r].ad_id)))
    /\ UNCHANGED <<table, last_id, clock, deleted, touched, submitted>>

(* -------------------------------- POST -------------------------------- *)

\* AdView.post up to session.commit(): validation, then the INSERT.
PostInsert(r) ==
    /\ req[r].kind = "POST" /\ req[r].pc = "start"
    /\ LET validated == validate(CreateAd, req[r].json)
       IN IF validated.raised
          THEN /\ Step(r, Finish(req[r], http_error_handler(validated.error)))
               /\ UNCHANGED <<table, last_id, submitted>>
          ELSE \* INSERTs are timed by their place in the sequence.
               LET id == next_id(table, last_id)
                   row == Advertisement(validated.value, id)
               IN /\ last_id' = id
                  /\ table' = insert_row(table, id, row)
                  /\ IF unique_violation(table, id, row.ad_name)
                     THEN /\ Step(r, Finish([req[r] EXCEPT !.conflict = TRUE,
                                                           !.wrote = table' # table],
                                            InternalServerError))
                          /\ UNCHANGED submitted
                     ELSE /\ Step(r, [req[r] EXCEPT !.pc = "refresh", !.ad_id = id,
                                                    !.wrote = table' # table])
                          /\ submitted' = [j \in DOMAIN submitted \cup {id} |->
                                              IF j = id THEN req[r].json ELSE submitted[j]]
    /\ UNCHANGED <<clock, deleted, touched>>

\* AdView.post's return: ad.id and ad.ad_name are expired by the commit and
\* reloaded from the row.
post_return(tbl, ad_id) ==
    IF ad_id \in DOMAIN tbl
    THEN Response(200, [id |-> ad_id, ad_name |-> tbl[ad_id].ad_name])
    ELSE InternalServerError

PostRefresh(r) ==
    /\ req[r].kind = "POST" /\ req[r].pc = "refresh"
    /\ Step(r, Finish(req[r], post_return(table, req[r].ad_id)))
    /\ UNCHANGED <<table, last_id, clock, deleted, touched, submitted>>

(* ------------------------------- PATCH -------------------------------- *)

\* Mutant of patch_entry: the record is loaded before the body is validated.
patch_entry_load_first(tbl, ad_id, json) ==
    LET ad == get_ad(tbl, ad_id)
    IN IF ad.raised
       THEN [raised |-> TRUE, resp |-> http_error_handler(ad.error), read |-> TRUE]
       ELSE LET validated == validate(PatchAd, json)
            IN IF validated.raised
               THEN [raised |-> TRUE, resp |-> http_error_handler(validated.error),
                     read |-> TRUE]
               ELSE [raised |-> FALSE, read |-> TRUE,
                     set |-> pending_update(ad.value,
                                            patch_assign(ad.value, validated.value))]

\* AdView.patch up to session.add(ad): validation, get_ad, the assignments.
\* `read` tells whether the table was read.
patch_entry(tbl, ad_id, json) ==
    LET validated == validate(PatchAd, json)
    IN IF validated.raised
       THEN [raised |-> TRUE, resp |-> http_error_handler(validated.error), read |-> FALSE]
       ELSE LET ad == get_ad(tbl, ad_id)
            IN IF ad.raised
               THEN [raised |-> TRUE, resp |-> http_error_handler(ad.error), read |-> TRUE]
               ELSE [raised |-> FALSE, read |-> TRUE,
                     set |-> pending_update(ad.value,
                                            patch_assign(ad.value, validated.value))]

PatchLoad(r) ==
    /\ req[r].kind = "PATCH" /\ req[r].pc = "start"
    /\ LET e == patch_entry(table, req[r].ad_id, req[r].json)
           seen == IF e.read THEN Seen(req[r].ad_id) ELSE "na"
       IN Step(r, IF e.raised
                  THEN Finish([req[r] EXCEPT !.found = seen], e.resp)
                  ELSE [req[r] EXCEPT !.pc = "commit", !.found = seen, !.set = e.set])
    /\ UNCHANGED <<table, last_id, clock, deleted, touched, submitted>>

\* AdView.patch's session.commit() and return.
PatchCommit(r) ==
    /\ req[r].kind = "PATCH" /\ req[r].pc = "commit"
    /\ LET q == req[r]
           outcome == update_outcome(table, q.ad_id, q.set)
       IN /\ table' = update_table(table, q.ad_id, q.set)
          /\ Step(r, Finish([q EXCEPT !.wrote = table' # table],
                            IF outcome = "ok" THEN Success ELSE InternalServerError))
          /\ touched' = IF outcome = "ok" THEN touched \cup {q.ad_id} ELSE touched
    /\ UNCHANGED <<last_id, clock, deleted, submitted>>

(* ------------------------------- DELETE ------------------------------- *)

\* AdView.delete up to session.delete(ad): get_ad.
DeleteLoad(r) ==
    /\ req[r].kind = "DELETE" /\ req[r].pc = "start"
    /\ LET ad == get_ad(table, req[r].ad_id)
           q == [req[r] EXCEPT !.found = Seen(req[r].ad_id)]
       IN Step(r, IF ad.raised
                  THEN Finish(q, http_error_handler(ad.error))
                  ELSE [q EXCEPT !.pc = "commit"])
    /\ UNCHANGED <<table, last_id, clock, deleted, touched, submitted>>

\* AdView.delete's session.commit() and return: a DELETE that matches no row
\* is not an error.
DeleteCommit(r) ==
    /\ req[r].kind = "DELETE" /\ req[r].pc = "commit"
    /\ table' = delete_row(table, req[r].ad_id)
    /\ Step(r, Finish([req[r] EXCEPT !.wrote = table' # table], Success))
    /\ deleted' = deleted \cup {req[r].ad_id}
    /\ touched' = touched \cup {req[r].ad_id}
    /\ UNCHANGED <<last_id, clock, submitted>>

(* ---------------------------- specification --------------------------- *)

\* One step of the handler worker r runs.
Handle(r) ==
    \/ Get(r)
    \/ PostInsert(r)
    \/ PostRefresh(r)
    \/ PatchLoad(r)
    \/ PatchCommit(r)
    \/ DeleteLoad(r)
    \/ DeleteCommit(r)

\* Overlapping requests.
Next ==
    \E r \in Slots :
        \/ ReceiveGet(r, MaxRequests)
        \/ ReceivePost(r, PostBodies, MaxRequests)
        \/ ReceivePatch(r, PatchBodies, MaxRequests)
        \/ ReceiveDelete(r, MaxRequests)
        \/ Handle(r)

Spec == Init /\ [][Next]_vars

\* One request at a time, bodies of every shape.
NextSerial ==
    \/ ReceiveGet(1, MaxSerial)
    \/ ReceivePost(1, Payloads, MaxSerial)
    \/ ReceivePatch(1, Payloads, MaxSerial)
    \/ ReceiveDelete(1, MaxSerial)
    \/ Handle(1)

SpecSerial == Init /\ [][NextSerial]_vars

(* ------------------------------- claims ------------------------------- *)

\* The latest step answered a request; `last` is that request.
Answered == last.pc = "done"

\* Worker r takes the step that leaves handler position `pc`.
Leaves(r, pc) == req[r].pc = pc /\ req'[r].pc # pc

\* Every field of the body is a JSON string.
AllStrings(json) == \A i \in 1..Len(Fields) : json[Fields[i]].t = "str"

NameInUse(name) == \E j \in DOMAIN table : table[j].ad_name = name

NotFound == Response(404, [status |-> "error", reason |-> "advertisement not found"])

C2_UniqueNames ==
    \A i, j \in DOMAIN table : i # j => table[i].ad_name # table[j].ad_name

\* A PATCH that renames a record to the name of another one was refused.
C2_Witness ==
    /\ Answered /\ last.kind = "PATCH" /\ last.resp.status = 500
    /\ last.ad_id \in DOMAIN table
    /\ \E j \in DOMAIN table : j # last.ad_id /\ Str(table[j].ad_name) = last.json.ad_name

\* C3: a POST whose ad_name an existing record holds is answered with a
\* 4xx status.
C3_DuplicateCreateIs4xx ==
    (Answered /\ last.kind = "POST" /\ last.conflict)
    => (last.resp.status >= 400 /\ last.resp.status <= 499)

\* C4: a POST whose body lacks one of the three fields or gives one a value
\* that is not a string is answered 400 with a list of at least one error,
\* and adds no record.
C4_BadCreateIs400 ==
    (Answered /\ last.kind = "POST" /\ ~AllStrings(last.json))
    => /\ last.resp.status = 400
       /\ Len(last.resp.body.reason) >= 1
       /\ ~last.wrote

\* A body the validator of PatchAd accepts: no field is a list or an object.
ValidPatch(json) == \A i \in 1..Len(Fields) : json[Fields[i]].t # "obj"

\* C5: a GET, a DELETE or a PATCH with a valid body that addresses an id
\* without a record is answered 404 {status: "error", reason:
\* "advertisement not found"} and changes no record.
C5_NotFound ==
    [][\A r \in Slots :
        (/\ req[r].kind \in {"GET", "DELETE", "PATCH"} /\ Leaves(r, "start")
         /\ req[r].kind = "PATCH" => ValidPatch(req[r].json)
         /\ req[r].ad_id \notin DOMAIN table)
        => /\ req'[r].pc = "idle"
           /\ last'.resp.status = 404
           /\ last'.resp = NotFound
           /\ table' = table
      ]_vars

\* A PATCH whose body is valid (a null ad_name, a number for ad_body) has
\* been answered 404 for an id without a record.
C5_Witness ==
    /\ Answered /\ last.kind = "PATCH" /\ last.found = "no"
    /\ last.json.ad_name = Null /\ last.json.ad_body = Num("5")
    /\ last.resp.status = 404

\* C6: the commit of a PATCH that answers success keeps the set of records,
\* leaves every other record as it was, keeps ad_owner and created_at of the
\* addressed record, and the response is {status: "success"}.
C6_PatchFrame ==
    [][\A r \in Slots :
        (/\ req[r].kind = "PATCH" /\ Leaves(r, "commit")
         /\ last'.resp.status = 200)
        => /\ last'.resp = Success
           /\ DOMAIN table' = DOMAIN table
           /\ \A j \in DOMAIN table :
                 /\ j # req[r].ad_id => table'[j] = table[j]
                 /\ table'[j].ad_owner = table[j].ad_owner
                 /\ table'[j].created_at = table[j].created_at
      ]_vars

\* A PATCH that supplied another ad_owner has changed its record and
\* answered success.
C6_Witness ==
    /\ Answered /\ last.kind = "PATCH" /\ last.resp.status = 200
    /\ last.wrote
    /\ last.json.ad_owner.t = "str"
    /\ last.ad_id \in DOMAIN table
    /\ table[last.ad_id].ad_owner # last.json.ad_owner.s

\* C7: an id whose DELETE has answered success holds no record in any later
\* state, and a GET on it that arrives afterwards is answered 404.
C7_DeletePermanent ==
    /\ deleted \cap DOMAIN table = {}
    /\ (Answered /\ last.kind = "GET" /\ last.late) => last.resp = NotFound

\* A GET that arrived after the DELETE of a created record answered success
\* has been answered.
C7_Witness ==
    /\ Answered /\ last.kind = "GET" /\ last.late
    /\ last.ad_id \in deleted /\ last.ad_id \in DOMAIN submitted

\* C8: the commit of a PATCH that answers success leaves the addressed
\* record with every ad_name or ad_body string the body supplied, the empty
\* string included, and with its previous value for a field the body lacks.
C8_PatchApplies ==
    [][\A r \in Slots :
        (/\ req[r].kind = "PATCH" /\ Leaves(r, "commit")
         /\ last'.resp.status = 200
         /\ req[r].ad_id \in DOMAIN table /\ req[r].ad_id \in DOMAIN table')
        => \A f \in {"ad_name", "ad_body"} :
              /\ req[r].json[f].t = "str"
                 => table'[req[r].ad_id][f] = req[r].json[f].s
              /\ req[r].json[f].t = "absent"
                 => table'[req[r].ad_id][f] = table[req[r].ad_id][f]
      ]_vars

\* C9: a request that does not end in success has changed no record.
C9_FailureWritesNothing ==
    (Answered /\ last.resp.status # 200) => ~last.wrote

\* C10: a POST or PATCH whose body fails validation is answered 400 and has
\* neither read nor written the table, whatever id it addresses.
C10_ValidateFirst ==
    (/\ Answered /\ last.kind \in {"POST", "PATCH"}
     /\ validate(IF last.kind = "POST" THEN CreateAd ELSE PatchAd, last.json).raised)
    => /\ last.resp.status = 400
       /\ last.found = "na"
       /\ ~last.wrote

\* A PATCH with a list or object for ad_body, addressed to an id without a
\* record, has been answered 400.
C10_Witness ==
    /\ Answered /\ last.kind = "PATCH" /\ last.json.ad_body = Obj
    /\ last.ad_id \notin DOMAIN table
    /\ last.resp.status = 400

====
